---- MODULE Spec2Model ----
(***************************************************************************)
(* Call_Log: extraction of the "Telsa64" text trailer appended to audio    *)
(* files (src/app.py, src/call_logs.py) and the JSON record store.         *)
(*                                                                         *)
(* Text is modelled as a sequence of tokens.  The tokens "|", ":", " ",    *)
(* "-" and "+" are the characters the code looks at; every other token is  *)
(* a run of characters none of which the code inspects.  Python values     *)
(* are tagged: None, a dict (a set of <<key, value>> pairs with unique     *)
(* keys) or a str.  Sequence indices in the Python-facing operators are    *)
(* 0-based, as in the source.                                              *)
(***************************************************************************)
EXTENDS Integers, Sequences, FiniteSets, TLC

VARIABLES
    lines,       \* process_logs: the decoded lines of the file under parse
    file_name,   \* process_logs: the file name the lines came from
    selected,    \* app.process_logs: selected_lines (None until it is set)
    entry,       \* app.process_logs: the value returned
    entry_cl,    \* call_logs.process_logs: the value returned
    ppc,         \* position of the parsing run
    store,       \* database.json written by app.save_to_json
    cl_store,    \* database.json written by call_logs.save_to_json
    last,        \* the file event handled by the last pipeline run
    raised,      \* an exception escaped the pipeline (the loop is dead)
    pc,          \* per watcher thread: position inside process_file
    ev,          \* per watcher thread: the file of the event being handled
    db_entry,    \* per watcher thread: save_to_json's argument
    db,          \* per watcher thread: save_to_json's local list
    arrived,     \* file names whose record was handed to save_to_json
    skipped      \* some run so far ended without a new store entry

vars == <<lines, file_name, selected, entry, entry_cl, ppc, store, cl_store,
          last, raised, pc, ev, db_entry, db, arrived, skipped>>

(***************************************************************************)
(* Bounds                                                                  *)
(***************************************************************************)
\* longest run of lines in front of the count line
MaxWin == 3
\* longest list call_logs.save_to_json (which never deduplicates) grows
MaxCLStore == 1

(***************************************************************************)
(* Python values                                                           *)
(***************************************************************************)
PyNone == [tag |-> "None"]
Dict(items) == [tag |-> "dict", items |-> items]
Str(chars) == [tag |-> "str", chars |-> chars]

\* Python truthiness as used by "if not parsed" and "if db_entry"
Truthy(v) ==
    CASE v.tag = "None" -> FALSE
      [] v.tag = "dict" -> v.items # {}
      [] v.tag = "str" -> v.chars # <<>>
      [] OTHER -> TRUE

\* d[key] = val
dict_set(d, key, val) == {p \in d : p[1] # key} \cup {<<key, val>>}

Max(a, b) == IF a >= b THEN a ELSE b
Min(a, b) == IF a <= b THEN a ELSE b

\* seq[start:stop] with Python's treatment of negative and oversized indices
PySlice(seq, start, stop) ==
    LET n == Len(seq)
        norm(i) == IF i < 0 THEN Max(0, n + i) ELSE Min(i, n)
    IN  SubSeq(seq, norm(start) + 1, norm(stop))

\* seq[i] for i in -len..len-1 (the callers guarantee the range)
PyAt(seq, i) == IF i < 0 THEN seq[Len(seq) + i + 1] ELSE seq[i + 1]

(***************************************************************************)
(* str methods                                                             *)
(***************************************************************************)
RECURSIVE lstrip(_)
lstrip(s) == IF s # <<>> /\ Head(s) = " " THEN lstrip(Tail(s)) ELSE s

RECURSIVE rstrip(_)
rstrip(s) ==
    IF s # <<>> /\ s[Len(s)] = " " THEN rstrip(SubSeq(s, 1, Len(s) - 1)) ELSE s

strip(s) == rstrip(lstrip(s))

Contains(s, c) == \E i \in 1..Len(s) : s[i] = c

FirstIndex(s, c) == CHOOSE i \in 1..Len(s) : s[i] = c /\ \A j \in 1..(i - 1) : s[j] # c

\* s.split(sep): every separator cuts, empty pieces are kept
RECURSIVE split(_, _)
split(s, sep) ==
    IF ~Contains(s, sep) THEN <<s>>
    ELSE LET i == FirstIndex(s, sep)
         IN  <<SubSeq(s, 1, i - 1)>> \o split(SubSeq(s, i + 1, Len(s)), sep)

\* s.split(sep, 1) for an s that contains sep: <<before, after>>
split1(s, sep) ==
    LET i == FirstIndex(s, sep)
    IN  <<SubSeq(s, 1, i - 1), SubSeq(s, i + 1, Len(s))>>

Digits == {"0", "1", "2", "3", "5"}

DigitVal(t) ==
    CASE t = "0" -> 0 [] t = "1" -> 1 [] t = "2" -> 2 [] t = "3" -> 3 [] t = "5" -> 5

\* int(s): [exc |-> TRUE] stands for ValueError
py_int(s) ==
    LET t == strip(s)
    IN  IF Len(t) = 1 /\ t[1] \in Digits THEN [exc |-> FALSE, val |-> DigitVal(t[1])]
        ELSE IF Len(t) = 2 /\ t[1] = "+" /\ t[2] \in Digits
             THEN [exc |-> FALSE, val |-> DigitVal(t[2])]
        ELSE IF Len(t) = 2 /\ t[1] = "-" /\ t[2] \in Digits
             THEN [exc |-> FALSE, val |-> 0 - DigitVal(t[2])]
        ELSE [exc |-> TRUE]

(***************************************************************************)
(* parse_log_line (identical in app.py and call_logs.py)                   *)
(***************************************************************************)
RECURSIVE parse_fields(_, _)
parse_fields(fields, parsed) ==
    IF fields = <<>> THEN parsed
    ELSE LET field == Head(fields)
         IN  IF Contains(field, ":")
             THEN LET kv == split1(field, ":")
                  IN  parse_fields(Tail(fields), dict_set(parsed, kv[1], kv[2]))
             ELSE parse_fields(Tail(fields), parsed)

parse_log_line(line) ==
    LET parts == split(line, "|")
    IN  IF Len(parts) < 2 THEN PyNone
        ELSE Dict(parse_fields(PySlice(parts, 2, Len(parts)), {}))

(***************************************************************************)
(* app.py: process_logs                                                    *)
(***************************************************************************)
\* the unknown-number marker of app.py, transliterated to ASCII
UnknownMarker == <<"namoshakhas">>
\* the marker call_logs.py uses instead
ClUnknownMarker == <<"null">>

Raise == [tag |-> "raise"]

\* the try block that reads the count line; ValueError is caught by the caller
read_count(ls) == py_int(strip(PyAt(ls, Len(ls) - 2)))

\* the window start without the clamp to zero
start_index_unclamped(count_line_index, num_lines_to_read) ==
    count_line_index - num_lines_to_read

start_index(count_line_index, num_lines_to_read) ==
    Max(0, count_line_index - num_lines_to_read)

selected_lines(ls, num_lines_to_read) ==
    LET count_line_index == Len(ls) - 2
    IN  PySlice(ls, start_index(count_line_index, num_lines_to_read), count_line_index)

\* one iteration of the loop over selected_lines
assemble_line(e, raw) ==
    LET line == strip(raw)
        parts == split(line, "|")
    IN  IF Len(parts) < 2 THEN e
        ELSE LET line_type == strip(parts[2])
                 parsed == parse_log_line(line)
             IN  IF ~Truthy(parsed) THEN e
                 ELSE IF line_type = <<"Info">>
                      THEN [e EXCEPT !.Info = parsed, !.Info_line = Str(line)]
                 ELSE IF line_type = <<"Number">> THEN [e EXCEPT !.Number = parsed]
                 ELSE IF line_type = <<"CallWindow">> THEN [e EXCEPT !.CallWindow = parsed]
                 ELSE e

RECURSIVE assemble(_, _)
assemble(e, sel) ==
    IF sel = <<>> THEN e ELSE assemble(assemble_line(e, Head(sel)), Tail(sel))

\* the default for a missing Number left out
default_number_missing(e) == e

default_number(e) ==
    IF e.Number = PyNone
    THEN [e EXCEPT !.Number = Dict({<<(<<"Number">>), UnknownMarker>>})]
    ELSE e

new_entry(name) ==
    [tag |-> "entry", FileName |-> name, Info |-> PyNone, Info_line |-> PyNone,
     Number |-> PyNone, CallWindow |-> PyNone]

\* the ValueError of int() let through
except_count_reraise(name) == Raise

\* the except clause around the count line: log with the file name, return None
except_count(name) == PyNone

\* the run of process_logs: the value returned and selected_lines if reached
process_logs_run(ls, name) ==
    IF Len(ls) < 2 THEN [ret |-> PyNone, sel |-> PyNone]
    ELSE IF strip(PyAt(ls, -1)) # <<"Telsa64">> THEN [ret |-> PyNone, sel |-> PyNone]
    ELSE LET n == read_count(ls)
         IN  IF n.exc THEN [ret |-> except_count(name), sel |-> PyNone]
             ELSE LET sel == selected_lines(ls, n.val)
                  IN  [ret |-> default_number(assemble(new_entry(name), sel)),
                       sel |-> [tag |-> "list", elems |-> sel]]

process_logs(ls, name) == process_logs_run(ls, name).ret

(***************************************************************************)
(* call_logs.py: process_logs                                              *)
(***************************************************************************)
\* the "not enough lines" test left out
cl_start_ok_always(idx) == TRUE

cl_start_ok(idx) == idx >= 0

cl_assemble_line(e, raw) ==
    LET line == strip(raw)
        parts == split(line, "|")
    IN  IF Len(parts) < 2 THEN e
        ELSE LET line_type == strip(parts[2])
                 parsed_data == parse_log_line(line)
             IN  IF ~Truthy(parsed_data) THEN e
                 ELSE IF line_type = <<"Info">>
                      THEN [e EXCEPT !.Info =
                               Dict(dict_set(dict_set(parsed_data.items, <<"Date">>, parts[1]),
                                             <<"RawLine">>, line))]
                 ELSE IF line_type = <<"Number">> THEN [e EXCEPT !.Number = parsed_data]
                 ELSE IF line_type = <<"CallWindow">> THEN [e EXCEPT !.CallWindow = parsed_data]
                 ELSE e

RECURSIVE cl_assemble(_, _)
cl_assemble(e, sel) ==
    IF sel = <<>> THEN e ELSE cl_assemble(cl_assemble_line(e, Head(sel)), Tail(sel))

cl_default_number(e) ==
    IF e.Number = PyNone
    THEN [e EXCEPT !.Number = Dict({<<(<<"Number">>), ClUnknownMarker>>})]
    ELSE e

cl_new_entry(name) ==
    [tag |-> "entry", FileName |-> name, Info |-> PyNone, Number |-> PyNone,
     CallWindow |-> PyNone]

\* lines[count_line_index] with count_line_index = len(lines) - 2; for a single
\* line the index is -1 and Python reads the last line
cl_read_count(ls) == py_int(strip(PyAt(ls, Len(ls) - 2)))

cl_process_logs(ls, name) ==
    IF ls = <<>> THEN PyNone
    ELSE IF strip(PyAt(ls, -1)) # <<"Telsa64">> THEN PyNone
    ELSE LET n == cl_read_count(ls)
         IN  IF n.exc THEN PyNone
             ELSE LET count_line_index == Len(ls) - 2
                      idx == count_line_index - n.val
                  IN  IF ~cl_start_ok(idx) THEN PyNone
                      ELSE cl_default_number(
                               cl_assemble(cl_new_entry(name),
                                           PySlice(ls, idx, count_line_index)))

(***************************************************************************)
(* Inputs of the parsing runs                                              *)
(***************************************************************************)
InfoA == <<"d1", "|", "Info", "|", "Number", ":", "123", "|", "Call_Type", ":", "voice_call">>
InfoB == <<" ", "d2", "|", "Info", "|", "k", ":", "v", ":", "w", " ">>
InfoEmpty == <<"d3", "|", "Info">>
NumA == <<"d4", "|", " ", "Number", " ", "|", "Number", ":", "123">>
NumNoVal == <<"d5", "|", "Number", "|", "novalue">>
CallA == <<"d6", "|", "CallWindow", "|", "Call_Type", ":", "voice_call">>
NoPipe == <<"noise">>
LowerInfo == <<"d7", "|", "info", "|", "k", ":", "v">>

WindowPool == {InfoA, InfoB, InfoEmpty, NumA, NumNoVal, CallA, NoPipe, LowerInfo}

CountPool == {<<"0">>, <<"1">>, <<" ", "2">>, <<"3">>, <<"5">>, <<"-", "1">>, <<"x">>}

LastPool == {<<"Telsa64">>, <<" ", "Telsa64", " ">>, <<"Telsa64", "x">>}

Names == {"a.mp3", "b.wav"}

SeqsUpTo(S, n) == UNION {[1..k -> S] : k \in 0..n}

Trailers ==
    {<<>>} \cup {<<l>> : l \in LastPool} \cup {<<c, l>> : c \in CountPool, l \in LastPool}

LineSeqs == {w \o t : w \in SeqsUpTo(WindowPool, MaxWin), t \in Trailers}

(***************************************************************************)
(* Parsing runs: both process_logs on one input                            *)
(***************************************************************************)
Threads == {1, 2}

Idle == [t \in Threads |-> "idle"]
NoEvent == [name |-> "", kind |-> "none", fault |-> "none", by |-> "none"]
AbsentStore == [exists |-> FALSE, ok |-> TRUE, db |-> <<>>]

ParseIdle ==
    /\ store = AbsentStore /\ cl_store = AbsentStore
    /\ last = NoEvent /\ raised = FALSE
    /\ pc = Idle /\ ev = [t \in Threads |-> NoEvent]
    /\ db_entry = [t \in Threads |-> PyNone] /\ db = [t \in Threads |-> <<>>]
    /\ arrived = {} /\ skipped = FALSE

PipeIdle ==
    /\ lines = <<>> /\ file_name = "" /\ selected = PyNone
    /\ entry = PyNone /\ entry_cl = PyNone /\ ppc = "off"

InitParse ==
    /\ lines \in LineSeqs
    /\ file_name \in Names
    /\ selected = PyNone /\ entry = PyNone /\ entry_cl = PyNone
    /\ ppc = "start"
    /\ ParseIdle

RunApp ==
    /\ ppc = "start"
    /\ LET r == process_logs_run(lines, file_name)
       IN  entry' = r.ret /\ selected' = r.sel
    /\ ppc' = "app"
    /\ UNCHANGED <<lines, file_name, entry_cl, store, cl_store, last, raised,
                   pc, ev, db_entry, db, arrived, skipped>>

RunCallLogs ==
    /\ ppc = "app"
    /\ entry_cl' = cl_process_logs(lines, file_name)
    /\ ppc' = "both"
    /\ UNCHANGED <<lines, file_name, entry, selected, store, cl_store, last, raised,
                   pc, ev, db_entry, db, arrived, skipped>>

NextParse == RunApp \/ RunCallLogs

SpecParse == InitParse /\ [][NextParse]_vars

(***************************************************************************)
(* Properties of the parsing runs (checked under SpecParse)                *)
(***************************************************************************)
\* the lines end in the sentinel with an integer in front of it
TrailerOK(ls) ==
    /\ Len(ls) >= 2
    /\ strip(ls[Len(ls)]) = <<"Telsa64">>
    /\ ~py_int(ls[Len(ls) - 1]).exc

HasTrailer == TrailerOK(lines)

DeclaredCount == py_int(lines[Len(lines) - 1]).val

\* number of lines in front of the count line
Available == Len(lines) - 2

AppRan == ppc \in {"app", "both"}

\* the type discriminator of a window line, <<"?">> when it has none
TypeOf(raw) ==
    LET parts == split(strip(raw), "|")
    IN  IF Len(parts) < 2 THEN <<"?">> ELSE strip(parts[2])

\* C5: when the last line is the sentinel and the line before it is an
\* integer N, app.process_logs returns a record and feeds the assembler the N
\* lines right in front of the count line if 0 <= N <= available, all lines in
\* front of the count line if N exceeds them (clamping), and no line if N < 0.
C5_TrailerWindow ==
    (AppRan /\ HasTrailer) =>
        /\ entry # PyNone
        /\ selected # PyNone
        /\ (DeclaredCount >= 0 /\ DeclaredCount <= Available) =>
               /\ Len(selected.elems) = DeclaredCount
               /\ \A i \in 1..DeclaredCount :
                      selected.elems[i] = lines[Available - DeclaredCount + i]
        /\ DeclaredCount > Available =>
               selected.elems = SubSeq(lines, 1, Available)
        /\ DeclaredCount < 0 => selected.elems = <<>>

C5_Witness ==
    /\ AppRan /\ HasTrailer
    /\ DeclaredCount > Available /\ Available >= 2
    /\ entry # PyNone /\ Len(selected.elems) = Available

\* the window the trailer declares, stated from the count alone
DeclaredWindow == SubSeq(lines, Max(0, Available - DeclaredCount) + 1, Available)

NoNumberLine(window) == \A i \in 1..Len(window) : TypeOf(window[i]) # <<"Number">>

LastOfType(window, type) ==
    LET hits == {i \in 1..Len(window) :
                    TypeOf(window[i]) = type /\ parse_log_line(strip(window[i])) # PyNone}
    IN  IF hits = {} THEN 0 ELSE CHOOSE i \in hits : \A j \in hits : j <= i

\* C8: Info (with Info_line), Number and CallWindow of the record are each
\* the parse of the last window line of that type whose parse is not None.
C8_LastWins ==
    (AppRan /\ entry # PyNone) =>
        LET w == selected.elems
            li == LastOfType(w, <<"Info">>)
            ln == LastOfType(w, <<"Number">>)
            lc == LastOfType(w, <<"CallWindow">>)
        IN  /\ entry.Info = IF li = 0 THEN PyNone ELSE parse_log_line(strip(w[li]))
            /\ entry.Info_line = IF li = 0 THEN PyNone ELSE Str(strip(w[li]))
            /\ entry.Number = IF ln = 0 THEN Dict({<<(<<"Number">>), UnknownMarker>>})
                              ELSE parse_log_line(strip(w[ln]))
            /\ entry.CallWindow = IF lc = 0 THEN PyNone ELSE parse_log_line(strip(w[lc]))

\* a window line with two or more segments and no valid key:value field
NoFieldLine(raw) == parse_log_line(strip(raw)) = Dict({})

\* C9: a window that ends in an "Info" line without fields gives Info = {} and
\* Info_line = that line trimmed; one that ends in a "Number" line without
\* fields gives Number = {} instead of the sentinel.
C9_EmptyMapNotAbsent ==
    (AppRan /\ entry # PyNone /\ selected.elems # <<>>) =>
        LET lastLine == selected.elems[Len(selected.elems)]
        IN  /\ (TypeOf(lastLine) = <<"Info">> /\ NoFieldLine(lastLine)) =>
                   (entry.Info = Dict({}) /\ entry.Info_line = Str(strip(lastLine)))
            /\ (TypeOf(lastLine) = <<"Number">> /\ NoFieldLine(lastLine)) =>
                   entry.Number = Dict({})

\* some window line of type "Number" was stored by the assembler
NumberLineSet(window) ==
    \E i \in 1..Len(window) :
        TypeOf(window[i]) = <<"Number">> /\ Truthy(parse_log_line(strip(window[i])))

CountExceeds == HasTrailer /\ DeclaredCount > Available

\* C10: app.process_logs and call_logs.process_logs both return None or both
\* return a record with the same FileName, CallWindow and (if a Number line
\* set it) Number, except that when the declared count exceeds the lines in
\* front of the count line app.py returns a record and call_logs.py None.
C10_ParsersAgree ==
    (ppc = "both") =>
        /\ CountExceeds => (entry # PyNone /\ entry_cl = PyNone)
        /\ ~CountExceeds => ((entry = PyNone) <=> (entry_cl = PyNone))
        /\ (entry # PyNone /\ entry_cl # PyNone) =>
               /\ entry.FileName = entry_cl.FileName
               /\ entry.CallWindow = entry_cl.CallWindow
               /\ (entry.Info = PyNone) <=> (entry_cl.Info = PyNone)
               /\ NumberLineSet(selected.elems) => entry.Number = entry_cl.Number

C10_Witness ==
    /\ ppc = "both" /\ CountExceeds /\ Available >= 1
    /\ entry # PyNone /\ entry.CallWindow # PyNone /\ entry_cl = PyNone

(***************************************************************************)
(* The record store: database.json                                         *)
(*   exists - the file is there                                            *)
(*   ok     - its content is a complete JSON document                      *)
(*   db     - the entries its content holds (all of them if ok)            *)
(***************************************************************************)
\* os.path.exists + json.load; [exc |-> TRUE] stands for the exception raised
load_db(st, fault) ==
    IF ~st.exists THEN [exc |-> FALSE, db |-> <<>>]
    ELSE IF fault = "read" \/ ~st.ok THEN [exc |-> TRUE, db |-> <<>>]
    ELSE [exc |-> FALSE, db |-> st.db]

\* the duplicate test left out, as in call_logs.py
has_file_never(entries, e) == FALSE

\* any(e.get("FileName") == db_entry.get("FileName") for e in db)
has_file(entries, e) == \E i \in 1..Len(entries) : entries[i].FileName = e.FileName

\* open(JSON_FILE, 'w'): the file exists and is empty
open_w(st) == [exists |-> TRUE, ok |-> FALSE, db |-> <<>>]

\* json.dump ran to the end and the file was closed
dump(entries) == [exists |-> TRUE, ok |-> TRUE, db |-> entries]

\* open for writing followed by json.dump, with the I/O error the run meets
write_db(st, entries, fault) ==
    CASE fault = "open" -> [exc |-> TRUE, store |-> st]
      [] fault = "dump_empty" -> [exc |-> TRUE, store |-> open_w(st)]
      [] fault = "dump_partial" ->
             [exc |-> TRUE,
              store |-> [exists |-> TRUE, ok |-> FALSE,
                         db |-> SubSeq(entries, 1, Len(entries) - 1)]]
      [] OTHER -> [exc |-> FALSE, store |-> dump(entries)]

\* app.py: save_to_json; "except Exception" swallows every error
save_to_json(e, st, fault) ==
    LET l == load_db(st, fault)
    IN  IF l.exc THEN [store |-> st, raised |-> FALSE]
        ELSE IF has_file(l.db, e) THEN [store |-> st, raised |-> FALSE]
        ELSE [store |-> write_db(st, Append(l.db, e), fault).store, raised |-> FALSE]

\* call_logs.py: save_to_json appends without looking for the file name
cl_save_to_json(e, st, fault) ==
    LET l == load_db(st, fault)
    IN  IF l.exc THEN [store |-> st, raised |-> FALSE]
        ELSE [store |-> write_db(st, Append(l.db, e), fault).store, raised |-> FALSE]

\* what open + read + decode + splitlines give for a file of each kind;
\* [exc |-> TRUE] stands for the exception raised by open or read
read_lines(f) ==
    CASE f.kind = "good" -> [exc |-> FALSE, lines |-> <<InfoA, NumA, CallA, <<"3">>, <<"Telsa64">>>>]
      [] f.kind = "clamp" -> [exc |-> FALSE, lines |-> <<CallA, <<"5">>, <<"Telsa64">>>>]
      [] f.kind = "nosentinel" -> [exc |-> FALSE, lines |-> <<InfoA, <<"1">>, <<"Telsa64", "x">>>>]
      [] f.kind = "badcount" -> [exc |-> FALSE, lines |-> <<InfoA, <<"x">>, <<"Telsa64">>>>]
      [] OTHER -> [exc |-> TRUE, lines |-> <<>>]

\* extract_logs: the decoded lines, [] when reading raised
extract_logs(f) == LET r == read_lines(f) IN IF r.exc THEN <<>> ELSE r.lines

\* the files that arrive: a name and what the file holds
Kinds == {"good", "clamp", "nosentinel", "badcount", "unreadable"}

Files == {[name |-> n, kind |-> k] : n \in Names, k \in Kinds}

\* process_logs(extract_logs(file_path), basename) for each file, computed once
parsed_files == [f \in Files |-> process_logs(extract_logs(f), f.name)]

\* app.py: process_file
process_file(f, st, fault) ==
    LET e == parsed_files[f]
    IN  IF e = Raise THEN [store |-> st, raised |-> TRUE]
        ELSE IF Truthy(e) THEN save_to_json(e, st, fault)
        ELSE [store |-> st, raised |-> FALSE]

\* call_logs.py: process_logs(extract_logs(file_path), file_name) for each file
cl_parsed_files == [f \in Files |-> cl_process_logs(extract_logs(f), f.name)]

\* call_logs.py: the body of the loop of process_all_files_in_directory
cl_process_one(f, st, fault) ==
    LET e == cl_parsed_files[f]
    IN  IF e = Raise THEN [store |-> st, raised |-> TRUE]
        ELSE IF Truthy(e) THEN cl_save_to_json(e, st, fault)
        ELSE [store |-> st, raised |-> FALSE]

(***************************************************************************)
(* Files and I/O errors the pipelines meet                                 *)
(***************************************************************************)
Faults == {"none", "read", "open", "dump_empty", "dump_partial"}

Event(f, fault, by) ==
    [name |-> f.name, kind |-> f.kind, fault |-> fault, by |-> by]

FileNames(entries) == {entries[i].FileName : i \in 1..Len(entries)}

(***************************************************************************)
(* Spec: files handled one after the other                                 *)
(***************************************************************************)
Init ==
    /\ store \in {AbsentStore, dump(<<>>)}
    /\ cl_store = AbsentStore
    /\ last = NoEvent /\ raised = FALSE /\ skipped = FALSE
    /\ pc = Idle /\ ev = [t \in Threads |-> NoEvent]
    /\ db_entry = [t \in Threads |-> PyNone] /\ db = [t \in Threads |-> <<>>]
    /\ arrived = {}
    /\ PipeIdle

\* FileHandler.on_created -> process_file, run to its end
ProcessFile(f, fault) ==
    /\ ~raised
    /\ LET r == process_file(f, store, fault)
       IN  /\ store' = r.store
           /\ raised' = r.raised
           /\ skipped' = (skipped \/ r.store = store)
    /\ last' = Event(f, fault, "app")
    /\ UNCHANGED <<cl_store, pc, ev, db_entry, db, arrived,
                   lines, file_name, selected, entry, entry_cl, ppc>>

\* one iteration of the loop of process_all_files_in_directory
ProcessAllFilesStep(f, fault) ==
    /\ ~raised
    /\ Len(cl_store.db) < MaxCLStore
    /\ LET r == cl_process_one(f, cl_store, fault)
       IN  /\ cl_store' = r.store
           /\ raised' = r.raised
           /\ skipped' = (skipped \/ r.store = cl_store)
    /\ last' = Event(f, fault, "call_logs")
    /\ UNCHANGED <<store, pc, ev, db_entry, db, arrived,
                   lines, file_name, selected, entry, entry_cl, ppc>>

Next ==
    \/ \E f \in Files, fault \in Faults : ProcessFile(f, fault)
    \/ \E f \in Files, fault \in Faults : ProcessAllFilesStep(f, fault)

Spec == Init /\ [][Next]_vars

(***************************************************************************)
(* Properties of the store (checked under Spec)                            *)
(***************************************************************************)
NoDupNames(entries) ==
    \A i, j \in 1..Len(entries) : i # j => entries[i].FileName # entries[j].FileName

\* the record app.py's parser makes of the file of an event
AppEntry(evt) == process_logs(extract_logs(evt), evt.name)

\* C1: the store of app.py holds at most one entry per FileName, and a run for
\* a FileName the store already holds leaves the store exactly as it was.
C1_Dedup ==
    [][ /\ NoDupNames(store'.db)
        /\ (last'.by = "app" /\ last'.name \in FileNames(store.db)) => store' = store
      ]_vars

C1_Witness ==
    /\ last.by = "app" /\ last.fault = "none" /\ AppEntry(last) # PyNone
    /\ store.ok /\ Len(store.db) = 2
    /\ \E i \in 1..2 : store.db[i].FileName = last.name /\ store.db[i] # AppEntry(last)

WriteFaults == {"open", "dump_empty", "dump_partial"}

\* C3: a run of app.py that meets an I/O error while persisting leaves the
\* store file as it was or holding the complete updated collection.
C3_AllOrNothing ==
    [][ (last'.by = "app" /\ last'.fault \in WriteFaults) =>
            \/ store' = store
            \/ store' = dump(Append(store.db, AppEntry(last')))
      ]_vars

\* C4: every run leaves the store of app.py as it was or with exactly one
\* entry added at the end of a complete document.
C4_AppendOnly ==
    [][ \/ store' = store
        \/ /\ store'.ok /\ (store.ok \/ ~store.exists)
           /\ Len(store'.db) = Len(store.db) + 1
           /\ SubSeq(store'.db, 1, Len(store.db)) = store.db
      ]_vars

\* the file of the event can be read and carries a trailer
WellFormed(evt) == ~read_lines(evt).exc /\ TrailerOK(read_lines(evt).lines)

\* for call_logs.py the declared count must also fit
ClWellFormed(evt) ==
    /\ WellFormed(evt)
    /\ LET ls == read_lines(evt).lines
       IN  py_int(ls[Len(ls) - 1]).val <= Len(ls) - 2

Readable(st) == ~st.exists \/ st.ok

EndsWith(st, name) == st.ok /\ st.db # <<>> /\ st.db[Len(st.db)].FileName = name

\* C7: no run raises; a file that cannot be read or has no trailer changes
\* no store, a store read error changes no store, a write error adds no
\* entry; and a well-formed file with a new name is appended by the run that
\* handles it when the store is readable and no I/O error occurs.
C7_NoFatalFailure ==
    [][ /\ ~raised'
        /\ ~WellFormed(last') => (store' = store /\ cl_store' = cl_store)
        /\ (last'.fault = "read" /\ store.exists /\ cl_store.exists) =>
               (store' = store /\ cl_store' = cl_store)
        /\ last'.fault \in WriteFaults =>
               /\ ~(store'.ok /\ Len(store'.db) > Len(store.db))
               /\ ~(cl_store'.ok /\ Len(cl_store'.db) > Len(cl_store.db))
        /\ ( /\ last'.by = "app" /\ WellFormed(last') /\ last'.fault = "none"
             /\ Readable(store) /\ last'.name \notin FileNames(store.db) ) =>
               (EndsWith(store', last'.name) /\ Len(store'.db) = Len(store.db) + 1)
        /\ ( /\ last'.by = "call_logs" /\ ClWellFormed(last') /\ last'.fault = "none"
             /\ Readable(cl_store) ) =>
               (EndsWith(cl_store', last'.name) /\ Len(cl_store'.db) = Len(cl_store.db) + 1)
      ]_vars

C7_Witness ==
    /\ skipped /\ ~raised
    /\ last.by = "app" /\ WellFormed(last) /\ last.fault = "none"
    /\ EndsWith(store, last.name) /\ Len(store.db) = 2

(***************************************************************************)
(* SpecConc: two file events handled in overlapping time.  save_to_json    *)
(* takes no lock, so its file operations interleave.                       *)
(***************************************************************************)
InitConc ==
    /\ store \in {AbsentStore, dump(<<>>)}
    /\ cl_store = AbsentStore
    /\ last = NoEvent /\ raised = FALSE /\ skipped = FALSE
    /\ pc = Idle /\ ev = [t \in Threads |-> NoEvent]
    /\ db_entry = [t \in Threads |-> PyNone] /\ db = [t \in Threads |-> <<>>]
    /\ arrived = {}
    /\ PipeIdle

ConcUnchanged ==
    UNCHANGED <<cl_store, last, raised, skipped, lines, file_name, selected,
                entry, entry_cl, ppc>>

\* on_created -> process_file up to the call of save_to_json
OnCreated(t, f) ==
    /\ pc[t] = "idle"
    /\ f.name \notin arrived
    /\ \A u \in Threads : pc[u] # "idle" => ev[u].name # f.name
    /\ LET e == parsed_files[f]
       IN  IF Truthy(e)
           THEN /\ db_entry' = [db_entry EXCEPT ![t] = e]
                /\ ev' = [ev EXCEPT ![t] = Event(f, "none", "app")]
                /\ pc' = [pc EXCEPT ![t] = "load"]
           ELSE UNCHANGED <<db_entry, ev, pc>>
    /\ UNCHANGED <<store, db, arrived>>
    /\ ConcUnchanged

\* save_to_json: os.path.exists and json.load
LoadStore(t) ==
    /\ pc[t] = "load"
    /\ LET l == load_db(store, "none")
       IN  IF l.exc
           THEN /\ pc' = [pc EXCEPT ![t] = "idle"]
                /\ arrived' = arrived \cup {ev[t].name}
                /\ UNCHANGED db
           ELSE /\ db' = [db EXCEPT ![t] = l.db]
                /\ pc' = [pc EXCEPT ![t] = "check"]
                /\ UNCHANGED arrived
    /\ UNCHANGED <<store, ev, db_entry>>
    /\ ConcUnchanged

\* save_to_json: the duplicate test, db.append and open(JSON_FILE, 'w')
CheckAndOpen(t) ==
    /\ pc[t] = "check"
    /\ IF has_file(db[t], db_entry[t])
       THEN /\ pc' = [pc EXCEPT ![t] = "idle"]
            /\ arrived' = arrived \cup {ev[t].name}
            /\ UNCHANGED <<db, store>>
       ELSE /\ db' = [db EXCEPT ![t] = Append(db[t], db_entry[t])]
            /\ store' = open_w(store)
            /\ pc' = [pc EXCEPT ![t] = "dump"]
            /\ UNCHANGED arrived
    /\ UNCHANGED <<ev, db_entry>>
    /\ ConcUnchanged

\* save_to_json: json.dump and the close of the file
Dump(t) ==
    /\ pc[t] = "dump"
    /\ store' = dump(db[t])
    /\ pc' = [pc EXCEPT ![t] = "idle"]
    /\ arrived' = arrived \cup {ev[t].name}
    /\ UNCHANGED <<ev, db_entry, db>>
    /\ ConcUnchanged

NextConc ==
    \/ \E t \in Threads, f \in Files : OnCreated(t, f)
    \/ \E t \in Threads : LoadStore(t)
    \/ \E t \in Threads : CheckAndOpen(t)
    \/ \E t \in Threads : Dump(t)

SpecConc == InitConc /\ [][NextConc]_vars

\* C2: once the runs for the file names that reached save_to_json are over,
\* the store is a complete document that holds an entry for each of them.
C2_BothPersist ==
    (\A t \in Threads : pc[t] = "idle") =>
        (arrived # {} => (store.ok /\ arrived \subseteq FileNames(store.db)))

====
